---- MODULE Spec2Model ----
(***************************************************************************)
(* BodhiLabs document pipeline.                                            *)
(*                                                                         *)
(*   scripts/preprocess.py        the Normalizer: raw module export ->     *)
(*                                processed_module_{course_id}.json        *)
(*   scripts/build_vectorstore.py the Loader: processed module -> keyed    *)
(*                                upsert into a persistent collection      *)
(*                                                                         *)
(* Texts are TLA+ strings, so lengths, prefixes and equality are those of  *)
(* the Python strings.  Each script is a sequential program; one action is *)
(* one statement block or one loop iteration of it.                        *)
(***************************************************************************)
EXTENDS Integers, Sequences, FiniteSets, TLC

VARIABLES
    raw,          \* preprocess.py: raw_data[0], the raw module export
    npc,          \* preprocess.py: position of the script
    gi,           \* preprocess.py: index of the current group / checklist
    qi,           \* preprocess.py: index i of the MCQ loop's enumerate
    competencies, \* preprocess.py: competencies
    mcqs,         \* preprocess.py: mcqs
    checklists,   \* preprocess.py: checklists
    output,       \* preprocess.py: the written output file: <<>> or <<processed_data>>
    rendered,     \* history: per record produced, the texts built before truncation
    artifact,     \* build_vectorstore.py: the content of PROCESSED_JSON
    collection,   \* build_vectorstore.py: the persisted collection, id -> entry
    lpc,          \* build_vectorstore.py: position of the script
    documents,    \* build_vectorstore.py: documents
    ids,          \* build_vectorstore.py: ids
    existing_count, \* build_vectorstore.py: existing_count
    final_count,  \* build_vectorstore.py: the count logged at the end
    k,            \* number of records the running add_documents has applied
    before,       \* history: the collection when the current run started
    mark,         \* history: the artifact against the one the last run, if completed, loaded
    crashBase     \* history: <<>> or <<collection before an interrupted run>>

nvars == <<raw, npc, gi, qi, competencies, mcqs, checklists, output, rendered>>
lvars == <<artifact, collection, lpc, documents, ids, existing_count,
           final_count, k, before, mark, crashBase>>
vars == <<nvars, lvars>>

(***************************************************************************)
(* Bounds of the model.                                                    *)
(***************************************************************************)
MaxGroups == 2
MaxQ == 2
MaxChecklists == 1
MaxSteps == 2
MaxRecords == 2

(***************************************************************************)
(* Program constants.                                                      *)
(***************************************************************************)
MAX_CHARS == 2048
ObjectiveLimit == 10

(***************************************************************************)
(* Strings.                                                                *)
(***************************************************************************)
RECURSIVE Rep(_, _)
Rep(c, n) ==
    IF n <= 0 THEN ""
    ELSE IF n % 2 = 1 THEN c \o Rep(c, n - 1)
    ELSE LET h == Rep(c, n \div 2) IN h \o h

Sp(n) == Rep(" ", n)

CharAt(s, i) == SubSeq(s, i, i)

Prefix(s, n) == SubSeq(s, 1, n)

RECURSIVE Join(_, _)
Join(sep, items) ==
    IF Len(items) = 0 THEN ""
    ELSE IF Len(items) = 1 THEN items[1]
    ELSE items[1] \o sep \o Join(sep, Tail(items))

\* An identifier as JSON holds it: a number or a string.
IntId(n) == [kind |-> "int", n |-> n, s |-> ""]
StrId(s) == [kind |-> "str", n |-> 0, s |-> s]

\* str(x) of an identifier.
Str(id) == IF id.kind = "int" THEN ToString(id.n) ELSE id.s

(***************************************************************************)
(* preprocess.py: helper functions.                                        *)
(***************************************************************************)
\* The index of the first ">" at or after i, or 0.
RECURSIVE FirstGt(_, _)
FirstGt(s, i) ==
    IF i > Len(s) THEN 0
    ELSE IF CharAt(s, i) = ">" THEN i
    ELSE FirstGt(s, i + 1)

\* re.sub(r'<[^>]+>', '', text) from position i on.
RECURSIVE CleanFrom(_, _)
CleanFrom(s, i) ==
    IF i > Len(s) THEN ""
    ELSE LET j == FirstGt(s, i + 1) IN
         IF CharAt(s, i) = "<" /\ j >= i + 2
         THEN CleanFrom(s, j + 1)
         ELSE CharAt(s, i) \o CleanFrom(s, i + 1)

clean_html(text) == CleanFrom(text, 1)

\* re.findall(r"'([^']*)'", text): a quote opens an item, the next one closes it;
\* an opening quote with no closing quote matches nothing.
RECURSIVE ParseFrom(_, _, _, _)
ParseFrom(s, i, inside, cur) ==
    IF i > Len(s) THEN <<>>
    ELSE IF CharAt(s, i) = "'"
         THEN IF inside THEN <<cur>> \o ParseFrom(s, i + 1, FALSE, "")
              ELSE ParseFrom(s, i + 1, TRUE, "")
         ELSE ParseFrom(s, i + 1, inside, IF inside THEN cur \o CharAt(s, i) ELSE "")

parse_quoted_list(text) == ParseFrom(text, 1, FALSE, "")

\* Variant: the slice is one character short (text[:max_chars - 1]).
truncate_one_short(text) ==
    IF Len(text) <= MAX_CHARS THEN text ELSE Prefix(text, MAX_CHARS - 1)

truncate_if_needed(text) ==
    IF Len(text) <= MAX_CHARS THEN text ELSE Prefix(text, MAX_CHARS)

\* str.replace("'", "")
RECURSIVE StripQuotes(_)
StripQuotes(s) ==
    IF Len(s) = 0 THEN ""
    ELSE (IF Head(s) = "'" THEN "" ELSE Head(s)) \o StripQuotes(Tail(s))

\* json.dumps of a list of strings (no character of the inputs needs escaping).
JsonList(items) ==
    "[" \o Join(", ", [i \in 1..Len(items) |-> "\"" \o items[i] \o "\""]) \o "]"

(***************************************************************************)
(* preprocess.py: the embedding texts.  The f-strings are triple-quoted,   *)
(* so the source's line breaks and indentation are part of the text.       *)
(***************************************************************************)
\* learning_objectives[:10]
FirstObjectives(learning_objectives) ==
    SubSeq(learning_objectives, 1,
           IF Len(learning_objectives) < ObjectiveLimit
           THEN Len(learning_objectives) ELSE ObjectiveLimit)

CompetencyText(comp, learning_objectives) ==
    "Competency: " \o comp.module_compentency_area
    \o "\n" \o Sp(20) \o "Type: " \o comp.competency_type
    \o "\n\n" \o Sp(20) \o "Definition: " \o clean_html(comp.module_competency_definition)
    \o "\n\n" \o Sp(20) \o "This competency assesses:\n" \o Sp(20)
    \o Join("\n", [i \in 1..Len(FirstObjectives(learning_objectives)) |->
                     "- " \o learning_objectives[i]])
    \o "\n\n" \o Sp(20) \o "Activities: " \o StripQuotes(comp.activity_names)

McqText(comp, question_text, correct_option, learning_objective, options) ==
    "Question: " \o question_text
    \o "\n" \o Sp(24) \o "Correct Answer: " \o correct_option
    \o "\n" \o Sp(24) \o "Learning Objective: " \o learning_objective
    \o "\n" \o Sp(24) \o "All Options: " \o options
    \o "\n" \o Sp(24) \o "Competency: " \o comp.module_compentency_area
    \o " (" \o comp.competency_type \o ")"

steps_text(steps) ==
    Join("\n", [i \in 1..Len(steps) |->
                  ToString(steps[i].option_sequence) \o ". " \o steps[i].option_text])

ChecklistFull(question, steps) ==
    "Procedural Checklist: " \o question.question_text
    \o "\n" \o Sp(24) \o "Competency: Procedural Skills (Skill)"
    \o "\n" \o Sp(24) \o "Correct sequence (" \o ToString(Len(steps)) \o " steps):"
    \o "\n" \o Sp(24) \o steps_text(steps)

ChecklistShort(question, steps) ==
    "Procedural Checklist: " \o question.question_text
    \o "\n" \o Sp(28) \o "Steps:"
    \o "\n" \o Sp(28) \o steps_text(steps)

\* Variant: the comparison is >= instead of >.
ChecklistChooseInclusive(full, short) ==
    IF Len(full) >= MAX_CHARS THEN short ELSE full

\* Lines 171-181: the full template, replaced by the short one when too long.
ChecklistChoose(full, short) ==
    IF Len(full) > MAX_CHARS THEN short ELSE full

(***************************************************************************)
(* preprocess.py: the records.                                             *)
(***************************************************************************)
module_fields == raw.kmf

HasKey(key) == key \in DOMAIN module_fields

CompetencyRecord(group) ==
    LET comp == group.competency
        question_ids == parse_quoted_list(group.question.question_ids)
        learning_objectives ==
            parse_quoted_list(group.question.question_id_competency_definition)
    IN [id |-> comp.competency_id,
        embedding_text |-> truncate_if_needed(CompetencyText(comp, learning_objectives)),
        metadata |-> [doc_type |-> "competency",
                      competency_id |-> comp.competency_id,
                      competency_type |-> comp.competency_type,
                      module_compentency_area |-> comp.module_compentency_area,
                      module_competency_definition |->
                          clean_html(comp.module_competency_definition),
                      activity_names |-> StripQuotes(comp.activity_names),
                      question_ids |-> JsonList(question_ids),
                      question_count |-> Len(question_ids),
                      course_id |-> module_fields["course_id"],
                      competency_name |-> module_fields["competency_name"],
                      module_domain |-> module_fields["module_domain"]]]

\* The four lists the MCQ loop indexes at position i, in the order it reads them.
ParallelLists(group) ==
    <<parse_quoted_list(group.question.question_texts),
      parse_quoted_list(group.question.correct_options_texts),
      parse_quoted_list(group.question.question_id_competency_definition),
      parse_quoted_list(group.question.options_texts)>>

\* question_texts[i], correct_options[i], ... raise IndexError past the end.
IndexInRange(group, i) ==
    \A n \in 1..4 : i <= Len(ParallelLists(group)[n])

McqRendered(group, i) ==
    LET L == ParallelLists(group)
    IN McqText(group.competency, L[1][i], L[2][i], L[3][i], L[4][i])

McqRecord(group, i) ==
    LET comp == group.competency
        L == ParallelLists(group)
        qid == parse_quoted_list(group.question.question_ids)[i]
    IN [id |-> StrId(qid),
        embedding_text |-> truncate_if_needed(McqRendered(group, i)),
        metadata |-> [doc_type |-> "mcq",
                      question_id |-> qid,
                      question_text |-> L[1][i],
                      options_text |-> L[4][i],
                      correct_option_text |-> L[2][i],
                      question_id_competency_definition |-> L[3][i],
                      competency_id |-> comp.competency_id,
                      competency_type |-> comp.competency_type,
                      module_compentency_area |-> comp.module_compentency_area,
                      course_id |-> module_fields["course_id"],
                      competency_name |-> module_fields["competency_name"],
                      module_domain |-> module_fields["module_domain"]]]

ChecklistRendered(checklist) ==
    ChecklistChoose(ChecklistFull(checklist.question, checklist.option),
                    ChecklistShort(checklist.question, checklist.option))

ChecklistRecord(checklist) ==
    LET question == checklist.question
        steps == checklist.option
    IN [id |-> question.question_id,
        embedding_text |-> truncate_if_needed(ChecklistRendered(checklist)),
        metadata |-> [doc_type |-> "checklist",
                      question_id |-> Str(question.question_id),
                      question_text |-> question.question_text,
                      total_steps |-> Len(steps),
                      steps |-> [i \in 1..Len(steps) |->
                                   [step_number |-> steps[i].option_sequence,
                                    step_text |-> steps[i].option_text]],
                      competency_type |-> "Skill",
                      course_id |-> module_fields["course_id"],
                      competency_name |-> module_fields["competency_name"],
                      module_domain |-> module_fields["module_domain"]]]

\* Variant: total_vectors leaves the checklists out.
processed_data_without_checklists ==
    [module_info |-> module_fields,
     competencies |-> competencies,
     mcqs |-> mcqs,
     checklists |-> checklists,
     total_vectors |-> Len(competencies) + Len(mcqs)]

processed_data ==
    [module_info |-> module_fields,
     competencies |-> competencies,
     mcqs |-> mcqs,
     checklists |-> checklists,
     total_vectors |-> Len(competencies) + Len(mcqs) + Len(checklists)]

(***************************************************************************)
(* preprocess.py: the script, statement by statement.  A missing key or an *)
(* index past the end of a list raises; nothing catches it, so the script  *)
(* stops where it is.                                                      *)
(***************************************************************************)
\* Lines 47-49.
ExtractIdentity ==
    /\ npc = "identity"
    /\ npc' = IF raw.has_kmf /\ HasKey("course_id") /\ HasKey("competency_name")
              THEN "competencies" ELSE "failed"
    /\ gi' = 1
    /\ UNCHANGED <<raw, qi, competencies, mcqs, checklists, output, rendered, lvars>>

\* Lines 59-99, one iteration.
CompetencyStep ==
    /\ npc = "competencies"
    /\ gi <= Len(raw.mcq)
    /\ IF HasKey("module_domain")
       THEN LET group == raw.mcq[gi]
                text == CompetencyText(group.competency,
                           parse_quoted_list(group.question.question_id_competency_definition))
            IN /\ competencies' = Append(competencies, CompetencyRecord(group))
               /\ rendered' = Append(rendered,
                                [kind |-> "competency", full |-> text, text |-> text])
               /\ gi' = gi + 1
               /\ npc' = npc
       ELSE /\ npc' = "failed"
            /\ UNCHANGED <<competencies, rendered, gi>>
    /\ UNCHANGED <<raw, qi, mcqs, checklists, output, lvars>>

\* Line 59, the loop's end, to line 107.
CompetenciesDone ==
    /\ npc = "competencies"
    /\ gi > Len(raw.mcq)
    /\ npc' = "mcqs"
    /\ gi' = 1
    /\ qi' = 1
    /\ UNCHANGED <<raw, competencies, mcqs, checklists, output, rendered, lvars>>

\* Variant: a question whose index is past the end of a list is skipped
\* instead of stopping the script.
McqStepSkipping ==
    /\ npc = "mcqs"
    /\ gi <= Len(raw.mcq)
    /\ qi <= Len(parse_quoted_list(raw.mcq[gi].question.question_ids))
    /\ IF IndexInRange(raw.mcq[gi], qi) /\ HasKey("module_domain")
       THEN LET text == McqRendered(raw.mcq[gi], qi)
            IN /\ mcqs' = Append(mcqs, McqRecord(raw.mcq[gi], qi))
               /\ rendered' = Append(rendered,
                                [kind |-> "mcq", full |-> text, text |-> text])
       ELSE UNCHANGED <<mcqs, rendered>>
    /\ qi' = qi + 1
    /\ UNCHANGED <<raw, npc, gi, competencies, checklists, output, lvars>>

\* Lines 121-149, one iteration of the inner loop.
McqStep ==
    /\ npc = "mcqs"
    /\ gi <= Len(raw.mcq)
    /\ qi <= Len(parse_quoted_list(raw.mcq[gi].question.question_ids))
    /\ IF IndexInRange(raw.mcq[gi], qi) /\ HasKey("module_domain")
       THEN LET text == McqRendered(raw.mcq[gi], qi)
            IN /\ mcqs' = Append(mcqs, McqRecord(raw.mcq[gi], qi))
               /\ rendered' = Append(rendered,
                                [kind |-> "mcq", full |-> text, text |-> text])
               /\ qi' = qi + 1
               /\ npc' = npc
       ELSE /\ npc' = "failed"
            /\ UNCHANGED <<mcqs, rendered, qi>>
    /\ UNCHANGED <<raw, gi, competencies, checklists, output, lvars>>

\* Line 121, the inner loop's end: the next group (lines 109-118).
McqGroupDone ==
    /\ npc = "mcqs"
    /\ gi <= Len(raw.mcq)
    /\ qi > Len(parse_quoted_list(raw.mcq[gi].question.question_ids))
    /\ gi' = gi + 1
    /\ qi' = 1
    /\ UNCHANGED <<raw, npc, competencies, mcqs, checklists, output, rendered, lvars>>

\* Line 109, the outer loop's end, to line 157.
McqsDone ==
    /\ npc = "mcqs"
    /\ gi > Len(raw.mcq)
    /\ npc' = "checklists"
    /\ gi' = 1
    /\ UNCHANGED <<raw, qi, competencies, mcqs, checklists, output, rendered, lvars>>

\* Lines 160-207, one iteration.
ChecklistStep ==
    /\ npc = "checklists"
    /\ raw.has_checklist
    /\ gi <= Len(raw.checklist)
    /\ IF HasKey("module_domain")
       THEN LET checklist == raw.checklist[gi]
            IN /\ checklists' = Append(checklists, ChecklistRecord(checklist))
               /\ rendered' = Append(rendered,
                                [kind |-> "checklist",
                                 full |-> ChecklistFull(checklist.question, checklist.option),
                                 text |-> ChecklistRendered(checklist)])
               /\ gi' = gi + 1
               /\ npc' = npc
       ELSE /\ npc' = "failed"
            /\ UNCHANGED <<checklists, rendered, gi>>
    /\ UNCHANGED <<raw, qi, competencies, mcqs, output, lvars>>

\* Line 159 false, or line 160's loop ended.
ChecklistsDone ==
    /\ npc = "checklists"
    /\ (~raw.has_checklist \/ gi > Len(raw.checklist))
    /\ npc' = "save"
    /\ UNCHANGED <<raw, gi, qi, competencies, mcqs, checklists, output, rendered, lvars>>

\* Lines 213-226.
Save ==
    /\ npc = "save"
    /\ output' = <<processed_data>>
    /\ npc' = "done"
    /\ UNCHANGED <<raw, gi, qi, competencies, mcqs, checklists, rendered, lvars>>

NormalizerNext ==
    \/ ExtractIdentity
    \/ CompetencyStep
    \/ CompetenciesDone
    \/ McqStep
    \/ McqGroupDone
    \/ McqsDone
    \/ ChecklistStep
    \/ ChecklistsDone
    \/ Save

(***************************************************************************)
(* The raw exports the Normalizer is run on.                               *)
(***************************************************************************)
KMFKeys == {"course_id", "competency_name", "module_domain"}

KMFValue ==
    [course_id |-> "341", competency_name |-> "Urinary Catheterization",
     module_domain |-> "Nursing"]

FullKMF == [has_kmf |-> TRUE, kmf |-> KMFValue]

\* The key_module_field block: absent, or present with any of its keys.
KMFChoices ==
    {[has_kmf |-> FALSE, kmf |-> [x \in {} |-> ""]]}
    \cup {[has_kmf |-> TRUE, kmf |-> [x \in keys |-> KMFValue[x]]] : keys \in SUBSET KMFKeys}

\* 'p1_1', 'p1_2', ...: a list as the export encodes it.
QuotedItems(prefix, g, n) ==
    Join(", ", [i \in 1..n |-> "'" \o prefix \o ToString(g) \o "_" \o ToString(i) \o "'"])

ShortArea == "Catheter care"

\* Group g with nq question ids and the four parallel lists of lengths lens.
MkGroup(g, nq, lens, area, question_texts) ==
    [competency |->
        [competency_id |-> StrId("c" \o ToString(g)),
         module_compentency_area |-> area,
         competency_type |-> "Knowledge",
         module_competency_definition |-> "<p>Safe <b>catheter</b> care</p>",
         activity_names |-> "'Quiz', 'Simulation'"],
     question |->
        [question_ids |-> QuotedItems("q", g, nq),
         question_texts |-> question_texts,
         correct_options_texts |-> QuotedItems("a", g, lens[2]),
         question_id_competency_definition |-> QuotedItems("o", g, lens[3]),
         options_texts |-> QuotedItems("x", g, lens[4])]]

Group(g, nq, lens, area) == MkGroup(g, nq, lens, area, QuotedItems("t", g, lens[1]))

\* How the parallel lists' lengths differ from the number of question ids.
Deviations == {"none", "texts-", "correct-", "objectives-", "options-", "all-", "all+"}

Shorter(n) == IF n = 0 THEN 0 ELSE n - 1

Lens(nq, dev) ==
    <<IF dev \in {"texts-", "all-"} THEN Shorter(nq) ELSE IF dev = "all+" THEN nq + 1 ELSE nq,
      IF dev \in {"correct-", "all-"} THEN Shorter(nq) ELSE IF dev = "all+" THEN nq + 1 ELSE nq,
      IF dev \in {"objectives-", "all-"} THEN Shorter(nq) ELSE IF dev = "all+" THEN nq + 1 ELSE nq,
      IF dev \in {"options-", "all-"} THEN Shorter(nq) ELSE IF dev = "all+" THEN nq + 1 ELSE nq>>

Step(i, text) == [option_sequence |-> i, option_text |-> text]

Checklist(c, question_text, nsteps) ==
    [question |-> [question_id |-> IntId(6 + c), question_text |-> question_text],
     option |-> [i \in 1..nsteps |-> Step(i, "Wash hands")]]

MkRaw(kmf, groups, has_checklist, checklist) ==
    [has_kmf |-> kmf.has_kmf, kmf |-> kmf.kmf, mcq |-> groups,
     has_checklist |-> has_checklist, checklist |-> checklist]

\* n groups whose numbers of questions are nq[1], ..., nq[n], all lists equal.
RegularGroups(n, nq) ==
    [g \in 1..n |-> Group(g, nq[g], Lens(nq[g], "none"), ShortArea)]

\* n checklists of nsteps steps each.
RegularChecklists(n, nsteps) ==
    [c \in 1..n |-> Checklist(c, "Insert the catheter", nsteps)]

\* Well-formed exports of every size: up to MaxGroups groups of up to MaxQ
\* questions each, no checklist section or up to MaxChecklists checklists.
CountInputs ==
    UNION {{MkRaw(FullKMF, RegularGroups(n, nq), FALSE, <<>>) :
              nq \in [1..n -> 0..MaxQ]} : n \in 0..MaxGroups}
    \cup UNION {{MkRaw(FullKMF, RegularGroups(n, nq), TRUE, RegularChecklists(c, MaxSteps)) :
                   nq \in [1..n -> 0..MaxQ], c \in 0..MaxChecklists} : n \in 0..MaxGroups}

\* Exports with any identity block: n groups of q questions each, with no
\* checklist section, an empty one or one checklist.
IdentityInputs ==
    {MkRaw(kmf, RegularGroups(n, [g \in 1..n |-> q]), FALSE, <<>>) :
        kmf \in KMFChoices, n \in 0..MaxGroups, q \in 0..1}
    \cup {MkRaw(kmf, RegularGroups(n, [g \in 1..n |-> q]), TRUE, RegularChecklists(c, 1)) :
            kmf \in KMFChoices, n \in 0..MaxGroups, q \in 0..1, c \in 0..1}

\* Exports in which group d of n has parallel lists that differ in length from
\* its nq question ids, the other groups having one question each; and one whose
\* question text holds an apostrophe.
ListGroups ==
    UNION {{[g \in 1..n |->
               IF g = d THEN Group(g, nq, Lens(nq, dev), ShortArea)
               ELSE Group(g, 1, <<1, 1, 1, 1>>, ShortArea)] :
              d \in 1..n, nq \in 0..MaxQ, dev \in Deviations} : n \in 1..MaxGroups}

ApostropheGroup ==
    MkGroup(1, 2, <<2, 2, 2, 2>>, ShortArea, "'Patient's bag', 'Balloon'")

ListInputs ==
    {MkRaw(FullKMF, groups, FALSE, <<>>) : groups \in ListGroups \cup {<<ApostropheGroup>>}}

\* Exports whose texts are around the character budget: one group with one
\* question and one checklist, each rendering short, exactly MAX_CHARS long, one
\* longer, or far longer.
CompetencyOverhead ==
    Len(CompetencyText(Group(1, 1, <<1, 1, 1, 1>>, "").competency, <<"o1_1">>))

McqOverhead == Len(McqRendered(Group(1, 1, <<1, 1, 1, 1>>, ""), 1))

FullOverhead(nsteps) ==
    LET c == Checklist(1, "", nsteps) IN Len(ChecklistFull(c.question, c.option))

ShortOverhead(nsteps) ==
    LET c == Checklist(1, "", nsteps) IN Len(ChecklistShort(c.question, c.option))

AreaLengths ==
    {13, MAX_CHARS - CompetencyOverhead, MAX_CHARS - CompetencyOverhead + 1,
     MAX_CHARS - McqOverhead, MAX_CHARS - McqOverhead + 1, MAX_CHARS + 900}

QuestionTextLengths(nsteps) ==
    {19, MAX_CHARS - FullOverhead(nsteps), MAX_CHARS - FullOverhead(nsteps) + 1,
     MAX_CHARS - ShortOverhead(nsteps), MAX_CHARS - ShortOverhead(nsteps) + 1,
     MAX_CHARS + 900}

TextInputs ==
    UNION {{MkRaw(FullKMF, <<Group(1, 1, <<1, 1, 1, 1>>, Rep("a", al))>>, TRUE,
                  <<Checklist(1, Rep("c", ql), nsteps)>>) :
              al \in AreaLengths, ql \in QuestionTextLengths(nsteps)} :
           nsteps \in 0..MaxSteps}

RawInputs == CountInputs \cup IdentityInputs \cup ListInputs \cup TextInputs

(***************************************************************************)
(* The Loader at rest, for the runs of the Normalizer.                     *)
(***************************************************************************)
EmptyCollection == [x \in {} |-> <<>>]

EmptyBundle == [competencies |-> <<>>, mcqs |-> <<>>, checklists |-> <<>>]

LoaderAtRest ==
    /\ artifact = EmptyBundle
    /\ collection = EmptyCollection
    /\ lpc = "idle"
    /\ documents = <<>>
    /\ ids = <<>>
    /\ existing_count = 0
    /\ final_count = 0
    /\ k = 0
    /\ before = EmptyCollection
    /\ mark = "changed"
    /\ crashBase = <<>>

NormalizerInit ==
    /\ raw \in RawInputs
    /\ npc = "identity"
    /\ gi = 1
    /\ qi = 1
    /\ competencies = <<>>
    /\ mcqs = <<>>
    /\ checklists = <<>>
    /\ output = <<>>
    /\ rendered = <<>>
    /\ LoaderAtRest

NormalizerSpec == NormalizerInit /\ [][NormalizerNext]_vars

(***************************************************************************)
(* Properties of the Normalizer.                                           *)
(***************************************************************************)
Written == output # <<>>

Bundle == output[1]

AllRecords(b) == b.competencies \o b.mcqs \o b.checklists

\* The question ids of all groups, in input order.
RECURSIVE QuestionIds(_)
QuestionIds(groups) ==
    IF groups = <<>> THEN <<>>
    ELSE parse_quoted_list(Head(groups).question.question_ids) \o QuestionIds(Tail(groups))

RawChecklists == IF raw.has_checklist THEN raw.checklist ELSE <<>>

\* C3: a run that completes has written a bundle with one competency record per
\* group, one question record per question id and one checklist record per
\* checklist group (none when the section is absent), each list in input order and
\* of its own kind, and total_vectors is the sum of the three lengths.
RecordCount ==
    npc = "done" =>
        /\ Written
        /\ Len(Bundle.competencies) = Len(raw.mcq)
        /\ \A i \in 1..Len(raw.mcq) :
              /\ Bundle.competencies[i].id = raw.mcq[i].competency.competency_id
              /\ Bundle.competencies[i].metadata.doc_type = "competency"
        /\ Len(Bundle.mcqs) = Len(QuestionIds(raw.mcq))
        /\ \A i \in 1..Len(Bundle.mcqs) :
              /\ Bundle.mcqs[i].id = StrId(QuestionIds(raw.mcq)[i])
              /\ Bundle.mcqs[i].metadata.doc_type = "mcq"
        /\ Len(Bundle.checklists) = Len(RawChecklists)
        /\ \A i \in 1..Len(RawChecklists) :
              /\ Bundle.checklists[i].id = RawChecklists[i].question.question_id
              /\ Bundle.checklists[i].metadata.doc_type = "checklist"
        /\ Bundle.total_vectors =
              Len(raw.mcq) + Len(QuestionIds(raw.mcq)) + Len(RawChecklists)

\* A completed run over two groups with three questions in all and one checklist.
RecordCountWitness ==
    /\ npc = "done"
    /\ Len(raw.mcq) = 2
    /\ Len(QuestionIds(raw.mcq)) = 3
    /\ Len(RawChecklists) = 1
    /\ Bundle.total_vectors = 6

\* C4: every record of the written bundle has an embedding text of at most
\* MAX_CHARS characters: the text as rendered when that is at most MAX_CHARS
\* long, and its first MAX_CHARS characters otherwise.
Truncation ==
    Written =>
        /\ Len(AllRecords(Bundle)) = Len(rendered)
        /\ \A i \in 1..Len(rendered) :
              LET emitted == AllRecords(Bundle)[i].embedding_text
                  text == rendered[i].text
              IN /\ AllRecords(Bundle)[i].metadata.doc_type = rendered[i].kind
                 /\ Len(emitted) <= MAX_CHARS
                 /\ Len(text) <= MAX_CHARS => emitted = text
                 /\ Len(text) > MAX_CHARS =>
                       /\ Len(emitted) = MAX_CHARS
                       /\ emitted = SubSeq(text, 1, MAX_CHARS)

\* A written bundle with a cut competency text, a cut question text and a
\* checklist text of exactly MAX_CHARS characters.
TruncationWitness ==
    /\ Written
    /\ \E i \in 1..Len(rendered) :
          rendered[i].kind = "competency" /\ Len(rendered[i].text) > MAX_CHARS
    /\ \E i \in 1..Len(rendered) :
          rendered[i].kind = "mcq" /\ Len(rendered[i].text) > MAX_CHARS
    /\ \E i \in 1..Len(rendered) :
          rendered[i].kind = "checklist" /\ Len(rendered[i].text) = MAX_CHARS

\* The key_module_field block, or one of its three keys, is missing.
MalformedInput == ~raw.has_kmf \/ ~(KMFKeys \subseteq DOMAIN raw.kmf)

\* C5: an export without the key_module_field block, or without one of its
\* course id, module name and domain keys, never has its output written, and
\* its run never completes.
MalformedNeverWritten == MalformedInput => (~Written /\ npc # "done")

\* Some group has one of the four parallel lists shorter than its question ids.
ShortList(groups) ==
    \E g \in 1..Len(groups) : \E n \in 1..4 :
        Len(ParallelLists(groups[g])[n])
            < Len(parse_quoted_list(groups[g].question.question_ids))

\* The question records the groups give when each question id takes the
\* elements at its own position.
RECURSIVE PositionalFields(_)
PositionalFields(groups) ==
    IF groups = <<>> THEN <<>>
    ELSE LET L == ParallelLists(Head(groups))
             n == Len(parse_quoted_list(Head(groups).question.question_ids))
         IN [i \in 1..n |-> <<L[1][i], L[2][i], L[3][i], L[4][i]>>]
            \o PositionalFields(Tail(groups))

\* C9: with a parallel list shorter than the question ids in some group, the
\* output is never written and the run ends failed; a run that completes has
\* one question record per question id, built from the elements at the same
\* position, whatever follows them in the lists.
UnequalArrays ==
    /\ ShortList(raw.mcq) =>
          /\ ~Written
          /\ npc \notin {"save", "done"}
          /\ ~ENABLED NormalizerNext => npc = "failed"
    /\ npc = "done" =>
          /\ Len(Bundle.mcqs) = Len(QuestionIds(raw.mcq))
          /\ \A i \in 1..Len(Bundle.mcqs) :
                LET m == Bundle.mcqs[i].metadata
                IN /\ m.question_id = QuestionIds(raw.mcq)[i]
                   /\ <<m.question_text, m.correct_option_text,
                        m.question_id_competency_definition, m.options_text>>
                          = PositionalFields(raw.mcq)[i]

\* A run stopped by a short list in its second group, after the first group's
\* question records were built, with nothing written.
UnequalArraysWitness ==
    /\ npc = "failed"
    /\ ShortList(raw.mcq)
    /\ Len(mcqs) > 0
    /\ ~Written

\* C10: a checklist's full rendering is emitted unchanged when it is at most
\* MAX_CHARS long; otherwise the short rendering takes its place, and is emitted
\* whole when it fits and cut to its first MAX_CHARS characters when it does not.
ChecklistFallback ==
    Written =>
        /\ Len(Bundle.checklists) = Len(RawChecklists)
        /\ \A i \in 1..Len(RawChecklists) :
              LET full == ChecklistFull(RawChecklists[i].question, RawChecklists[i].option)
                  short == ChecklistShort(RawChecklists[i].question, RawChecklists[i].option)
                  emitted == Bundle.checklists[i].embedding_text
                  r == rendered[Len(Bundle.competencies) + Len(Bundle.mcqs) + i]
              IN /\ r.full = full
                 /\ (r.text = short /\ short # full) <=> Len(full) > MAX_CHARS
                 /\ Len(full) <= MAX_CHARS => emitted = full
                 /\ (Len(full) > MAX_CHARS /\ Len(short) <= MAX_CHARS) => emitted = short
                 /\ Len(short) > MAX_CHARS => emitted = SubSeq(short, 1, MAX_CHARS)

\* A written checklist whose short rendering too is longer than MAX_CHARS.
ChecklistFallbackWitness ==
    /\ Written
    /\ \E i \in 1..Len(RawChecklists) :
          /\ Len(RawChecklists[i].option) > 0
          /\ Len(ChecklistShort(RawChecklists[i].question, RawChecklists[i].option))
                > MAX_CHARS
          /\ Len(Bundle.checklists[i].embedding_text) = MAX_CHARS

(***************************************************************************)
(* build_vectorstore.py: load_module_documents.                            *)
(***************************************************************************)
Range(f) == {f[i] : i \in DOMAIN f}

\* Lines 48, 57, 66: the three loops, one after the other.
RecordsInOrder(data) == data.competencies \o data.mcqs \o data.checklists

\* Document(page_content=..., metadata=...) of each record.
LoadDocuments(data) ==
    [i \in 1..Len(RecordsInOrder(data)) |->
        [page_content |-> RecordsInOrder(data)[i].embedding_text,
         metadata |-> RecordsInOrder(data)[i].metadata]]

\* ids.append(str(...['id'])) of each record.
LoadIds(data) ==
    [i \in 1..Len(RecordsInOrder(data)) |-> Str(RecordsInOrder(data)[i].id)]

(***************************************************************************)
(* build_vectorstore.py: the collection.  An entry is the document stored  *)
(* under an id; its vector is the embedding of its page_content.           *)
(***************************************************************************)
Count(coll) == Cardinality(DOMAIN coll)

\* Variant: the ids are not passed on, and the store names the entry itself.
UpsertNewId(coll, id, doc) ==
    [x \in DOMAIN coll \cup {"auto-" \o ToString(Cardinality(DOMAIN coll))} |->
        IF x \in DOMAIN coll THEN coll[x] ELSE doc]

\* Variant: an add, which leaves the entry of an id it already holds.
UpsertAddOnly(coll, id, doc) ==
    [x \in DOMAIN coll \cup {id} |-> IF x \in DOMAIN coll THEN coll[x] ELSE doc]

\* Line 102: "replaces if ID exists, adds if new".
Upsert(coll, id, doc) ==
    [x \in DOMAIN coll \cup {id} |-> IF x = id THEN doc ELSE coll[x]]

Same == [state |-> "same", pos |-> 0]
Changed == [state |-> "changed", pos |-> 0]
Mutated(p) == [state |-> "mutated", pos |-> p]

\* Variant: the collection is created anew by every run.
LoaderStartRebuild ==
    /\ lpc = "idle"
    /\ documents' = LoadDocuments(artifact)
    /\ ids' = LoadIds(artifact)
    /\ collection' = EmptyCollection
    /\ existing_count' = 0
    /\ before' = EmptyCollection
    /\ k' = 0
    /\ lpc' = "upsert"
    /\ UNCHANGED <<artifact, final_count, mark, crashBase, nvars>>

\* Variant: existing_count > 0 is a gate, and a collection that holds
\* entries is left alone.
LoaderStartGated ==
    /\ lpc = "idle"
    /\ documents' = IF Count(collection) > 0 THEN <<>> ELSE LoadDocuments(artifact)
    /\ ids' = IF Count(collection) > 0 THEN <<>> ELSE LoadIds(artifact)
    /\ existing_count' = Count(collection)
    /\ before' = collection
    /\ k' = 0
    /\ lpc' = "upsert"
    /\ UNCHANGED <<artifact, collection, final_count, mark, crashBase, nvars>>

\* Lines 84-100: the documents are loaded, the collection is opened and counted.
LoaderStart ==
    /\ lpc = "idle"
    /\ documents' = LoadDocuments(artifact)
    /\ ids' = LoadIds(artifact)
    /\ existing_count' = Count(collection)
    /\ before' = collection
    /\ k' = 0
    /\ lpc' = "upsert"
    /\ UNCHANGED <<artifact, collection, final_count, mark, crashBase, nvars>>

\* Line 103, one record of add_documents.
UpsertStep ==
    /\ lpc = "upsert"
    /\ k < Len(documents)
    /\ collection' = Upsert(collection, ids[k + 1], documents[k + 1])
    /\ k' = k + 1
    /\ UNCHANGED <<artifact, lpc, documents, ids, existing_count, final_count,
                   before, mark, crashBase, nvars>>

\* Lines 105-128.
LoaderFinish ==
    /\ lpc = "upsert"
    /\ k = Len(documents)
    /\ final_count' = Count(collection)
    /\ lpc' = "done"
    /\ UNCHANGED <<artifact, collection, documents, ids, existing_count, k,
                   before, mark, crashBase, nvars>>

\* The process is stopped during line 103.
LoaderCrash ==
    /\ lpc = "upsert"
    /\ lpc' = "crashed"
    /\ crashBase' = IF crashBase = <<>> THEN <<before>> ELSE crashBase
    /\ mark' = Changed
    /\ UNCHANGED <<artifact, collection, documents, ids, existing_count,
                   final_count, k, before, nvars>>

\* The process is gone; the collection and the artifact stay.
LoaderExit ==
    /\ lpc \in {"done", "crashed"}
    /\ lpc' = "idle"
    /\ documents' = <<>>
    /\ ids' = <<>>
    /\ existing_count' = 0
    /\ final_count' = 0
    /\ k' = 0
    /\ before' = EmptyCollection
    /\ mark' = IF lpc = "done" THEN Same ELSE mark
    /\ crashBase' = IF lpc = "done" THEN <<>> ELSE crashBase
    /\ UNCHANGED <<artifact, collection, nvars>>

(***************************************************************************)
(* The processed modules the Loader is run on, and how the file changes    *)
(* between two runs.                                                       *)
(***************************************************************************)
Texts == {"x", "y"}

\* The text of every record of a module file as first written.
FirstText == "x"

Record(id, text, doc_type) ==
    [id |-> id, embedding_text |-> text, metadata |-> [doc_type |-> doc_type]]

CompetencyRecords == {Record(StrId("a"), FirstText, "competency")}

McqRecords == {Record(id, FirstText, "mcq") : id \in {StrId("a"), StrId("7")}}

ChecklistRecords == {Record(IntId(7), FirstText, "checklist")}

SeqsUpTo(S, n) == UNION {[1..m -> S] : m \in 0..n}

Bundles ==
    {b \in [competencies : SeqsUpTo(CompetencyRecords, MaxRecords),
            mcqs : SeqsUpTo(McqRecords, MaxRecords),
            checklists : SeqsUpTo(ChecklistRecords, MaxRecords)] :
        Len(RecordsInOrder(b)) <= MaxRecords}

\* The Normalizer has written another module file.
WriteArtifact ==
    /\ lpc = "idle"
    /\ \E b \in Bundles \ {artifact} : artifact' = b
    /\ mark' = Changed
    /\ crashBase' = <<>>
    /\ UNCHANGED <<collection, lpc, documents, ids, existing_count, final_count,
                   k, before, nvars>>

\* The embedding_text of the record at position i of list kind is replaced.
SetText(data, kind, i, text) ==
    [data EXCEPT ![kind][i].embedding_text = text]

\* The position in the order of submission of record i of list kind.
Position(data, kind, i) ==
    IF kind = "competencies" THEN i
    ELSE IF kind = "mcqs" THEN Len(data.competencies) + i
    ELSE Len(data.competencies) + Len(data.mcqs) + i

\* One record's embedding_text is changed in the file.
MutateText ==
    /\ lpc = "idle"
    /\ \E kind \in {"competencies", "mcqs", "checklists"} :
         \E i \in 1..Len(artifact[kind]) :
           \E text \in Texts \ {artifact[kind][i].embedding_text} :
              /\ artifact' = SetText(artifact, kind, i, text)
              /\ mark' = IF mark = Same THEN Mutated(Position(artifact, kind, i))
                         ELSE Changed
    /\ crashBase' = <<>>
    /\ UNCHANGED <<collection, lpc, documents, ids, existing_count, final_count,
                   k, before, nvars>>

LoaderNext ==
    \/ LoaderStart
    \/ UpsertStep
    \/ LoaderFinish
    \/ LoaderCrash
    \/ LoaderExit
    \/ WriteArtifact
    \/ MutateText

NormalizerAtRest ==
    /\ raw = MkRaw(FullKMF, <<>>, FALSE, <<>>)
    /\ npc = "idle"
    /\ gi = 1
    /\ qi = 1
    /\ competencies = <<>>
    /\ mcqs = <<>>
    /\ checklists = <<>>
    /\ output = <<>>
    /\ rendered = <<>>

LoaderInit ==
    /\ artifact \in Bundles
    /\ collection = EmptyCollection
    /\ lpc = "idle"
    /\ documents = <<>>
    /\ ids = <<>>
    /\ existing_count = 0
    /\ final_count = 0
    /\ k = 0
    /\ before = EmptyCollection
    /\ mark = Changed
    /\ crashBase = <<>>
    /\ NormalizerAtRest

LoaderSpec == LoaderInit /\ [][LoaderNext]_vars

(***************************************************************************)
(* Properties of the Loader.                                               *)
(***************************************************************************)
Distinct(seq) == \A i, j \in 1..Len(seq) : i # j => seq[i] # seq[j]

\* The last position at which id x is submitted.
LastOf(is, x) ==
    CHOOSE j \in 1..Len(is) : is[j] = x /\ \A m \in (j + 1)..Len(is) : is[m] # x

\* The collection base after the records (is[j], ds[j]) went in: each submitted
\* id holds the record submitted last under it, every other entry is as it was.
ExpectedAfter(base, is, ds) ==
    [x \in DOMAIN base \cup Range(is) |->
        IF x \in Range(is) THEN ds[LastOf(is, x)] ELSE base[x]]

\* C1: a completed run on the module file the previous completed run loaded
\* leaves the collection as it found it, with the same count.
Idempotence ==
    (lpc = "done" /\ mark = Same) =>
        /\ collection = before
        /\ final_count = existing_count
        /\ final_count = Count(collection)

\* A second completed run on an unchanged file of at least two records.
IdempotenceWitness ==
    /\ lpc = "done"
    /\ mark = Same
    /\ Len(ids) >= 2
    /\ existing_count > 0
    /\ collection = before

\* What C2 states of a run after one record's text was changed: the changed
\* record's id holds the new document, the others are as they were, and the
\* count is the same.
ReplacedAt(p) ==
    /\ ids[p] \in DOMAIN before
    /\ collection[ids[p]] = documents[p]
    /\ \A x \in DOMAIN collection \ {ids[p]} :
          x \in DOMAIN before /\ collection[x] = before[x]
    /\ final_count = existing_count

NoPruning ==
    [][\A x \in DOMAIN collection :
          /\ x \in DOMAIN collection'
          /\ x \notin Range(ids') => collection'[x] = collection[x]]_vars

\* A completed run of a file that no longer submits an id of the collection.
NoPruningWitness ==
    /\ lpc = "done"
    /\ Len(ids) > 0
    /\ \E x \in DOMAIN before : x \notin Range(ids) /\ collection[x] = before[x]

IdCollision ==
    /\ lpc = "upsert" => (ENABLED UpsertStep \/ ENABLED LoaderFinish)
    /\ lpc = "done" =>
          LET records == artifact.competencies \o artifact.mcqs \o artifact.checklists
          IN /\ Len(ids) = Len(records)
             /\ Len(documents) = Len(records)
             /\ \A i \in 1..Len(records) :
                   /\ ids[i] = (IF records[i].id.kind = "int"
                                THEN ToString(records[i].id.n) ELSE records[i].id.s)
                   /\ documents[i].page_content = records[i].embedding_text
                   /\ documents[i].metadata = records[i].metadata
             /\ collection = ExpectedAfter(before, ids, documents)
             /\ final_count = Cardinality(DOMAIN before \cup Range(ids))
             /\ (before = EmptyCollection /\ Distinct(ids)) =>
                   /\ DOMAIN collection = Range(ids)
                   /\ final_count = Len(ids)

\* A completed run of a file with a question of id '7' and a checklist of
\* numeric id 7: one entry, the checklist's.
IdCollisionWitness ==
    /\ lpc = "done"
    /\ before = EmptyCollection
    /\ Len(artifact.mcqs) = 1
    /\ Len(artifact.checklists) = 1
    /\ artifact.mcqs[1].id = StrId("7")
    /\ artifact.checklists[1].id = IntId(7)
    /\ final_count = 1
    /\ collection["7"].metadata.doc_type = "checklist"

====
